---- MODULE Spec2Model ----
(***************************************************************************)
(* Tectle order management: the importers (Etsy, Shopify), the importer    *)
(* registry of OrderService, the OrderOrganizer and the dashboard state.   *)
(*                                                                         *)
(* Python values read from the loosely typed payloads are records          *)
(* [t, s, n]: t is the Python type ("absent" = the key is not in the       *)
(* mapping), s the text of a str, n the number of an int / bool (0, 1) /   *)
(* float.  A float is held in hundredths (12.50 is n = 1250); a datetime   *)
(* is [aware, t, off] with t in hundredths of a second since the epoch     *)
(* (UTC instant when aware, wall clock when naive) and off the UTC offset  *)
(* in hours.                                                               *)
(***************************************************************************)
EXTENDS Integers, Sequences, FiniteSets, TLC

VARIABLES
    clock,      \* the wall clock read by datetime.now(tz=timezone.utc)
    importers,  \* OrderService.importers: lowercase key -> importer
    orders,     \* DashboardState.orders
    pc,         \* "idle": between calls; "returned": a call has just ended
    call,       \* the call that ended last: operation, arguments, state at entry
    result,     \* what that call returned or raised
    mappings,   \* the importer mappings of several services, in order of creation
    services,   \* several OrderService instances: each the mapping it holds
    handlers    \* the request threads of the dashboard server: position and locals

vars == <<clock, importers, orders, pc, call, result, mappings, services, handlers>>

-----------------------------------------------------------------------------
(* Bounds of the model.                                                    *)

\* the clock's first and last reading, in hundredths of a second
ClockStart == 300
MaxClock == 301
\* groups plus raw orders of one import_all payload, raw orders of one
\* import_orders call
MaxPayload == 4
MaxRaw == 2
\* groups plus raw orders of the payload the dashboard is launched with
MaxLaunch == 3
\* orders of a collection handed to the organizer
MaxOrders == 3
\* OrderService instances alive together
MaxServices == 3

-----------------------------------------------------------------------------
(* Python values.                                                          *)

PyV(t, s, n) == [t |-> t, s |-> s, n |-> n]
VAbsent == PyV("absent", "", 0)
VNone == PyV("none", "", 0)
VStr(s) == PyV("str", s, 0)
VInt(n) == PyV("int", "", n)
VFloat(n) == PyV("float", "", n)
VBool(b) == PyV("bool", "", IF b THEN 1 ELSE 0)

\* bool(v), as `or` and `if` test it
Truthy(v) ==
    CASE v.t \in {"absent", "none"} -> FALSE
      [] v.t = "str" -> v.s # ""
      [] OTHER -> v.n # 0

\* mapping.get(key): None when the key is missing
Get(v) == IF v.t = "absent" THEN VNone ELSE v

\* a fallback that passes over None alone and takes any other value, the
\* empty string and zero too
OrNotNone(a, b) == IF a.t \notin {"absent", "none"} THEN a ELSE b

\* a or b
Or(a, b) == IF Truthy(a) THEN a ELSE b

Digits == <<"0", "1", "2", "3", "4", "5", "6", "7", "8", "9">>

RECURSIVE NatToStr(_)
NatToStr(n) == IF n < 10 THEN Digits[n + 1] ELSE NatToStr(n \div 10) \o Digits[(n % 10) + 1]

IntToStr(n) == IF n < 0 THEN "-" \o NatToStr(-n) ELSE NatToStr(n)

\* repr of a float held in hundredths: 1250 is "12.5", 1000 is "10.0"
FloatToStr(n) ==
    LET a == IF n < 0 THEN -n ELSE n
        frac == a % 100
    IN  (IF n < 0 THEN "-" ELSE "") \o NatToStr(a \div 100) \o "." \o
        (IF frac % 10 = 0 THEN Digits[(frac \div 10) + 1]
         ELSE Digits[(frac \div 10) + 1] \o Digits[(frac % 10) + 1])

\* str(v)
PyStr(v) ==
    CASE v.t \in {"absent", "none"} -> "None"
      [] v.t = "str" -> v.s
      [] v.t = "int" -> IntToStr(v.n)
      [] v.t = "float" -> FloatToStr(v.n)
      [] OTHER -> IF v.n = 1 THEN "True" ELSE "False"

\* The texts int() accepts, with their values.
IntLiteral(s) ==
    CASE s = "0" -> 0 [] s = "1" -> 1 [] s = "2" -> 2 [] s = "3" -> 3
      [] OTHER -> -1

\* The texts float() accepts, with their values in hundredths.
FloatLiteral(s) ==
    CASE s = "0" -> 0 [] s = "1" -> 100 [] s = "2" -> 200 [] s = "3" -> 300
      [] s = "3.00" -> 300 [] s = "5.00" -> 500 [] s = "10.00" -> 1000
      [] s = "12.50" -> 1250 [] s = "0.00" -> 0
      [] OTHER -> -1

\* int(v) raises: ValueError on a text that is no integer literal,
\* TypeError on None
IntExc(v) ==
    CASE v.t \in {"absent", "none"} -> "TypeError"
      [] v.t = "str" -> IF IntLiteral(v.s) < 0 THEN "ValueError" ELSE "none"
      [] OTHER -> "none"

\* int(v) where it does not raise; a float is truncated
IntVal(v) ==
    CASE v.t = "str" -> IntLiteral(v.s)
      [] v.t = "float" -> v.n \div 100
      [] OTHER -> v.n

FloatExc(v) ==
    CASE v.t \in {"absent", "none"} -> "TypeError"
      [] v.t = "str" -> IF FloatLiteral(v.s) < 0 THEN "ValueError" ELSE "none"
      [] OTHER -> "none"

\* float(v) in hundredths where it does not raise
FloatVal(v) ==
    CASE v.t = "str" -> FloatLiteral(v.s)
      [] v.t = "float" -> v.n
      [] OTHER -> v.n * 100

\* str.isdigit()
IsDigit(s) == s \in {"0", "1", "2", "3"}

\* str.lower()
Lower(s) ==
    CASE s \in {"etsy", "Etsy", "ETSY"} -> "etsy"
      [] s \in {"shopify", "Shopify", "SHOPIFY"} -> "shopify"
      [] s \in {"dummy", "Dummy"} -> "dummy"
      [] s \in {"woocommerce", "WooCommerce"} -> "woocommerce"
      [] s \in {"open", "Open", "OPEN"} -> "open"
      [] s \in {"processing", "Processing", "PROCESSING"} -> "processing"
      [] s \in {"unfulfilled", "Unfulfilled"} -> "unfulfilled"
      [] s \in {"shipped", "Shipped"} -> "shipped"
      [] s \in {"closed", "Closed"} -> "closed"
      [] s \in {"paid", "Paid"} -> "paid"
      [] OTHER -> s

-----------------------------------------------------------------------------
(* datetime                                                                *)

DateTime(aware, t, off) == [aware |-> aware, t |-> t, off |-> off]

\* datetime.fromtimestamp(float(value), tz=timezone.utc), value in hundredths
FromTimestamp(n) == DateTime(TRUE, n, 0)

\* datetime.now(tz=timezone.utc)
Now(clk) == DateTime(TRUE, clk, 0)

\* The texts datetime.fromisoformat() accepts.
IsoTexts ==
    {"1970-01-01T00:00:01+00:00", "1970-01-01T00:00:02+00:00",
     "1970-01-01T01:00:01+01:00", "1970-01-01T00:00:01", "1970-01-01T00:00:02"}

\* datetime.fromisoformat(s) for s in IsoTexts: a text without an offset
\* gives a naive datetime
FromIsoFormat(s) ==
    CASE s = "1970-01-01T00:00:01+00:00" -> DateTime(TRUE, 100, 0)
      [] s = "1970-01-01T00:00:02+00:00" -> DateTime(TRUE, 200, 0)
      [] s = "1970-01-01T01:00:01+01:00" -> DateTime(TRUE, 100, 1)
      [] s = "1970-01-01T00:00:01" -> DateTime(FALSE, 100, 0)
      [] s = "1970-01-01T00:00:02" -> DateTime(FALSE, 200, 0)

\* value.replace("Z", "+00:00")
ReplaceZ(s) ==
    CASE s = "1970-01-01T00:00:01Z" -> "1970-01-01T00:00:01+00:00"
      [] s = "1970-01-01T00:00:02Z" -> "1970-01-01T00:00:02+00:00"
      [] OTHER -> s

TwoDigits(n) == Digits[(n \div 10) + 1] \o Digits[(n % 10) + 1]

\* datetime.isoformat() of a time of 1970-01-01: the wall clock at the
\* datetime's offset, microseconds when there are any, the offset when aware
IsoFormat(dt) ==
    LET wall == dt.t + (IF dt.aware THEN dt.off * 360000 ELSE 0)
        frac == wall % 100
    IN  "1970-01-01T" \o TwoDigits((wall \div 360000) % 24) \o ":"
        \o TwoDigits((wall \div 6000) % 60) \o ":" \o TwoDigits((wall \div 100) % 60)
        \o (IF frac = 0 THEN "" ELSE "." \o TwoDigits(frac) \o "0000")
        \o (IF dt.aware THEN "+" \o TwoDigits(dt.off) \o ":00" ELSE "")

\* a < b on datetimes raises TypeError ("can't compare offset-naive and
\* offset-aware datetimes") when exactly one of them is aware
Comparable(a, b) == a.aware = b.aware

-----------------------------------------------------------------------------
(* models.py                                                               *)

OrderItem(sku, name, quantity, price, currency, metadata) ==
    [sku |-> sku, name |-> name, quantity |-> quantity, price |-> price,
     currency |-> currency, metadata |-> metadata]

\* raw_payload, a reference to the argument that no operation reads, is
\* not carried.
Order(id, platform, created_at, customer_name, customer_email, status, currency, total_price, items, fulfillment_status) ==
    [id |-> id, platform |-> platform, created_at |-> created_at,
     customer_name |-> customer_name, customer_email |-> customer_email,
     status |-> status, currency |-> currency, total_price |-> total_price,
     items |-> items, fulfillment_status |-> fulfillment_status]

\* OrderItem.as_dict: the fields, metadata copied
ItemAsDict(item) == item

\* Order.as_dict: the fields but raw_payload, created_at as ISO-8601 text,
\* each item as a dict
AsDict(order) ==
    [order EXCEPT !.created_at = IsoFormat(order.created_at),
                  !.items = [i \in 1..Len(order.items) |-> ItemAsDict(order.items[i])]]

\* an is_open that compares the status as it is written
IsOpenExact(order) == order.status \in {"open", "unfulfilled", "processing"}

\* an is_open that does not count "processing"
IsOpenTwo(order) == Lower(order.status) \in {"open", "unfulfilled"}

\* Order.is_open
IsOpen(order) == Lower(order.status) \in {"open", "unfulfilled", "processing"}

RECURSIVE TotalQuantityOf(_)
\* sum(item.quantity for item in items)
TotalQuantityOf(items) ==
    IF items = <<>> THEN 0 ELSE Head(items).quantity + TotalQuantityOf(Tail(items))

\* Order.total_quantity
TotalQuantity(order) == TotalQuantityOf(order.items)

RECURSIVE SumSubtotals(_)
\* sum(item.price * item.quantity for item in items)
SumSubtotals(items) ==
    IF items = <<>> THEN 0
    ELSE Head(items).price * Head(items).quantity + SumSubtotals(Tail(items))

-----------------------------------------------------------------------------
(* importers/etsy.py                                                       *)

\* EtsyOrderImporter._parse_datetime
EtsyParseDatetime(value, clk) ==
    IF value.t \in {"int", "float", "bool"} THEN FromTimestamp(FloatVal(value))
    ELSE IF value.t = "str" /\ IsDigit(value.s) THEN FromTimestamp(FloatVal(value))
    ELSE IF value.t = "str" /\ value.s \in IsoTexts THEN FromIsoFormat(value.s)
    ELSE Now(clk)

\* what EtsyOrderImporter._parse_transaction raises ("none": nothing)
EtsyTransactionExc(tx) ==
    LET q == IntExc(Or(Get(tx.quantity), VInt(0)))
        p == FloatExc(Or(Or(Get(tx.price), Get(tx.transaction_total)), VFloat(0)))
    IN  IF q # "none" THEN q ELSE p

\* EtsyOrderImporter._parse_transaction
EtsyParseTransaction(tx, default_currency) ==
    OrderItem(
        PyStr(Or(Or(Get(tx.product_id), Get(tx.listing_id)), VStr(""))),
        PyStr(Or(Or(Get(tx.title), Get(tx.name)), VStr(""))),
        IntVal(Or(Get(tx.quantity), VInt(0))),
        FloatVal(Or(Or(Get(tx.price), Get(tx.transaction_total)), VFloat(0))),
        PyStr(Or(Get(tx.currency_code), VStr(default_currency))),
        <<<<"transaction_id", PyStr(Or(Get(tx.transaction_id), VStr("")))>>>>)

\* payload.get("buyer") or {}: the fields of an absent buyer are absent
NoBuyer == [name |-> VAbsent, username |-> VAbsent, email |-> VAbsent]

\* payload.get("transactions") or []
EtsyTransactions(payload) ==
    IF payload.transactions.t = "list" THEN payload.transactions.items ELSE <<>>

\* what EtsyOrderImporter.parse_order raises ("none": nothing): the first
\* transaction that fails to parse, then float() of grandtotal
EtsyParseExc(payload) ==
    LET txs == EtsyTransactions(payload)
        bad == {i \in 1..Len(txs) : EtsyTransactionExc(txs[i]) # "none"}
        first == CHOOSE i \in bad : \A j \in bad : i <= j
    IN  IF bad # {} THEN EtsyTransactionExc(txs[first])
        ELSE IF Truthy(Get(payload.grandtotal)) THEN FloatExc(Get(payload.grandtotal))
        ELSE "none"

\* EtsyOrderImporter.parse_order, where it does not raise
EtsyParseOrder(payload, clk) ==
    LET receipt_id == PyStr(Or(Get(payload.receipt_id), Get(payload.order_id)))
        buyer == IF payload.buyer.t = "dict" THEN payload.buyer.fields ELSE NoBuyer
        customer_name == PyStr(Or(Or(Get(buyer.name), Get(buyer.username)), VStr("")))
        customer_email == PyStr(Or(Get(buyer.email), VStr("")))
        created_at == EtsyParseDatetime(Get(payload.creation_tsz), clk)
        status == PyStr(Or(Get(payload.status), VStr("open")))
        currency == PyStr(Or(Get(payload.currency_code), VStr("USD")))
        txs == EtsyTransactions(payload)
        items == [i \in 1..Len(txs) |-> EtsyParseTransaction(txs[i], currency)]
        total_price == FloatVal(Or(Get(payload.grandtotal), VFloat(SumSubtotals(items))))
        fulfillment_status ==
            PyStr(Or(Or(Get(payload.fulfillment_status), Get(payload.was_paid)),
                     VStr("pending")))
    IN  Order(receipt_id, "etsy", created_at, customer_name, customer_email,
              status, currency, total_price, items,
              IF fulfillment_status # "" THEN VStr(fulfillment_status) ELSE VNone)

-----------------------------------------------------------------------------
(* importers/shopify.py                                                    *)

\* str.strip()
Strip(s) ==
    CASE s = " " -> ""
      [] s = " Grace " -> "Grace"
      [] OTHER -> s

\* (first_name + " " + last_name).strip(), both already stripped
JoinName(first_name, last_name) ==
    IF last_name = "" THEN first_name
    ELSE IF first_name = "" THEN last_name
    ELSE first_name \o " " \o last_name

\* payload.get("customer") or {}: the fields of an absent customer are absent
NoCustomer == [first_name |-> VAbsent, last_name |-> VAbsent, name |-> VAbsent, email |-> VAbsent]

\* an empty mapping is falsy
IsEmptyMapping(customer) == \A k \in DOMAIN customer : customer[k].t = "absent"

\* ShopifyOrderImporter._build_customer_name
BuildCustomerName(customer) ==
    IF IsEmptyMapping(customer) THEN ""
    ELSE LET first_name == Strip(PyStr(Or(Get(customer.first_name), VStr(""))))
             last_name == Strip(PyStr(Or(Get(customer.last_name), VStr(""))))
         IN  IF first_name # "" \/ last_name # "" THEN JoinName(first_name, last_name)
             ELSE PyStr(Or(Get(customer.name), VStr("")))

\* ShopifyOrderImporter._parse_datetime
ShopifyParseDatetime(value, clk) ==
    IF value.t = "str" /\ ReplaceZ(value.s) \in IsoTexts THEN FromIsoFormat(ReplaceZ(value.s))
    ELSE Now(clk)

\* what ShopifyOrderImporter._parse_line_item raises ("none": nothing)
ShopifyLineItemExc(li) ==
    LET q == IntExc(Or(Get(li.quantity), VInt(0)))
        p == FloatExc(Or(Get(li.price), VFloat(0)))
    IN  IF q # "none" THEN q ELSE p

\* ShopifyOrderImporter._parse_line_item
ShopifyParseLineItem(li, default_currency) ==
    OrderItem(
        PyStr(Or(Or(Get(li.sku), Get(li.variant_id)), VStr(""))),
        PyStr(Or(Get(li.title), VStr(""))),
        IntVal(Or(Get(li.quantity), VInt(0))),
        FloatVal(Or(Get(li.price), VFloat(0))),
        PyStr(Or(Get(li.currency), VStr(default_currency))),
        << <<"variant_title", PyStr(Or(Get(li.variant_title), VStr("")))>>,
           <<"fulfillment_status", PyStr(Or(Get(li.fulfillment_status), VStr("")))>> >>)

\* payload.get("line_items") or []
ShopifyLineItems(payload) ==
    IF payload.line_items.t = "list" THEN payload.line_items.items ELSE <<>>

\* what ShopifyOrderImporter.parse_order raises ("none": nothing)
ShopifyParseExc(payload) ==
    LET lis == ShopifyLineItems(payload)
        bad == {i \in 1..Len(lis) : ShopifyLineItemExc(lis[i]) # "none"}
        first == CHOOSE i \in bad : \A j \in bad : i <= j
    IN  IF bad # {} THEN ShopifyLineItemExc(lis[first])
        ELSE IF Truthy(Get(payload.total_price)) THEN FloatExc(Get(payload.total_price))
        ELSE "none"

\* ShopifyOrderImporter.parse_order, where it does not raise
ShopifyParseOrder(payload, clk) ==
    LET order_id == PyStr(Get(payload.id))
        customer == IF payload.customer.t = "dict" THEN payload.customer.fields ELSE NoCustomer
        customer_name == BuildCustomerName(customer)
        customer_email == PyStr(Or(Or(Get(customer.email), Get(payload.email)), VStr("")))
        created_at == ShopifyParseDatetime(Get(payload.created_at), clk)
        status == PyStr(Or(Or(Get(payload.financial_status), Get(payload.fulfillment_status)), VStr("open")))
        currency == PyStr(Or(Get(payload.currency), VStr("USD")))
        fulfillment_status == Get(payload.fulfillment_status)
        lis == ShopifyLineItems(payload)
        items == [i \in 1..Len(lis) |-> ShopifyParseLineItem(lis[i], currency)]
        total_price == FloatVal(Or(Get(payload.total_price), VFloat(SumSubtotals(items))))
    IN  Order(order_id, "shopify", created_at, customer_name, customer_email,
              status, currency, total_price, items,
              IF Truthy(fulfillment_status) THEN VStr(PyStr(fulfillment_status)) ELSE VNone)

-----------------------------------------------------------------------------
(* The importers of tests/test_service.py, registered by the tests.        *)

\* what DummyImporter.parse_order raises: payload["id"] on a missing key,
\* fromtimestamp() and float() on a value that is no number
DummyParseExc(payload) ==
    IF payload.id.t = "absent" THEN "KeyError"
    ELSE IF payload.created_at.t \notin {"absent", "int", "float", "bool"} THEN "TypeError"
    ELSE IF payload.total_price.t = "absent" THEN "none"
    ELSE FloatExc(payload.total_price)

\* payload.get(key, default): the default only when the key is missing
GetDefault(v, default) == IF v.t = "absent" THEN default ELSE v

\* DummyImporter.parse_order, where it does not raise
DummyParseOrder(payload, platform) ==
    LET total_price == FloatVal(GetDefault(payload.total_price, VFloat(0)))
        currency == PyStr(GetDefault(payload.currency, VStr("USD")))
    IN  Order(PyStr(payload.id), platform,
              FromTimestamp(FloatVal(GetDefault(payload.created_at, VInt(0)))),
              PyStr(GetDefault(payload.customer_name, VStr(""))),
              PyStr(GetDefault(payload.customer_email, VStr(""))),
              PyStr(GetDefault(payload.status, VStr("open"))),
              currency, total_price,
              <<OrderItem("SKU", "Item", IntVal(GetDefault(payload.quantity, VInt(1))),
                          total_price, currency, <<>>)>>,
              VNone)

\* AlternativeEtsyImporter.parse_order
AlternativeEtsyParseOrder(platform) ==
    Order("alt", platform, FromTimestamp(0), "", "", "open", "USD", 0, <<>>, VNone)

-----------------------------------------------------------------------------
(* importers/base.py                                                       *)

Importer(cls, platform) == [cls |-> cls, platform |-> platform]

EtsyOrderImporter == Importer("EtsyOrderImporter", "etsy")
ShopifyOrderImporter == Importer("ShopifyOrderImporter", "shopify")

\* what importer.parse_order(payload) raises ("none": nothing)
ParseExc(importer, payload) ==
    CASE importer.cls = "EtsyOrderImporter" -> EtsyParseExc(payload)
      [] importer.cls = "ShopifyOrderImporter" -> ShopifyParseExc(payload)
      [] importer.cls = "DummyImporter" -> DummyParseExc(payload)
      [] OTHER -> "none"

\* importer.parse_order(payload), where it does not raise
ParseOrder(importer, payload, clk) ==
    CASE importer.cls = "EtsyOrderImporter" -> EtsyParseOrder(payload, clk)
      [] importer.cls = "ShopifyOrderImporter" -> ShopifyParseOrder(payload, clk)
      [] importer.cls = "DummyImporter" -> DummyParseOrder(payload, importer.platform)
      [] OTHER -> AlternativeEtsyParseOrder(importer.platform)

\* What a call returns or raises: exc is "none" when it returns; msg is
\* the platform an error message names; value is the list returned.
Returns(value) == [exc |-> "none", msg |-> "", value |-> value]
Raises(exc, msg) == [exc |-> exc, msg |-> msg, value |-> <<>>]

\* an import_orders that returns the orders last payload first
BaseImportOrdersReversed(importer, raw_orders, clk) ==
    LET bad == {i \in 1..Len(raw_orders) : ParseExc(importer, raw_orders[i]) # "none"}
        first == CHOOSE i \in bad : \A j \in bad : i <= j
    IN  IF bad # {} THEN Raises(ParseExc(importer, raw_orders[first]), "")
        ELSE Returns([i \in 1..Len(raw_orders) |->
                        ParseOrder(importer, raw_orders[Len(raw_orders) + 1 - i], clk)])

\* BaseOrderImporter.import_orders: parse_order on each payload in order;
\* the first payload that fails to parse ends the call
BaseImportOrders(importer, raw_orders, clk) ==
    LET bad == {i \in 1..Len(raw_orders) : ParseExc(importer, raw_orders[i]) # "none"}
        first == CHOOSE i \in bad : \A j \in bad : i <= j
    IN  IF bad # {} THEN Raises(ParseExc(importer, raw_orders[first]), "")
        ELSE Returns([i \in 1..Len(raw_orders) |-> ParseOrder(importer, raw_orders[i], clk)])

-----------------------------------------------------------------------------
(* organizer.py                                                            *)

\* a comparison that puts an order before its equals: the sort it gives
\* is not stable
BeforeOrEqual(a, b, reverse) ==
    IF reverse THEN a.created_at.t >= b.created_at.t ELSE a.created_at.t <= b.created_at.t

\* a comparison that is right in ascending order and under reverse=True
\* puts an order before its equals, as a sort that is reversed afterwards
BeforeTiesReversed(a, b, reverse) ==
    IF reverse THEN a.created_at.t >= b.created_at.t ELSE a.created_at.t < b.created_at.t

\* key(a) < key(b), or the reverse of it under reverse=True
Before(a, b, reverse) ==
    IF reverse THEN a.created_at.t > b.created_at.t ELSE a.created_at.t < b.created_at.t

\* Where a stable sort puts o into the sorted list s: before the first
\* element that must come after it.
InsertPos(s, o, reverse) ==
    LET later == {i \in 1..Len(s) : Before(o, s[i], reverse)}
    IN  IF later = {} THEN Len(s) + 1 ELSE CHOOSE i \in later : \A j \in later : i <= j

Insert(s, o, reverse) ==
    LET i == InsertPos(s, o, reverse)
    IN  SubSeq(s, 1, i - 1) \o <<o>> \o SubSeq(s, i, Len(s))

\* a sort that returns its input as it is
Unsorted(s, reverse) == s

RECURSIVE StableSort(_, _)
\* sorted(orders, key=created_at, reverse=reverse): stable in both directions
StableSort(s, reverse) ==
    IF s = <<>> THEN <<>>
    ELSE Insert(StableSort(SubSeq(s, 1, Len(s) - 1), reverse), s[Len(s)], reverse)

\* what OrderOrganizer.sort_orders raises: the comparison of a naive with
\* an aware datetime is a TypeError, and a sort of a list holding both
\* makes one
SortExc(s) ==
    IF \E i, j \in 1..Len(s) : ~Comparable(s[i].created_at, s[j].created_at)
    THEN "TypeError" ELSE "none"

\* OrderOrganizer.sort_orders
SortOrders(s, reverse) ==
    IF SortExc(s) # "none" THEN Raises(SortExc(s), "") ELSE Returns(StableSort(s, reverse))

\* grouped[key].append(order) on a defaultdict(list) held as the sequence
\* of its items: a new key goes to the end with a list of one
GroupAppend(grouped, key, order) ==
    IF \E i \in 1..Len(grouped) : grouped[i].key = key
    THEN [i \in 1..Len(grouped) |->
            IF grouped[i].key = key
            THEN [key |-> key, value |-> Append(grouped[i].value, order)]
            ELSE grouped[i]]
    ELSE Append(grouped, [key |-> key, value |-> <<order>>])

\* a key that takes the status as it is written
StatusKeyExact(order) == order.status

\* order.status.lower()
StatusKey(order) == Lower(order.status)

RECURSIVE GroupByStatusLoop(_, _)
GroupByStatusLoop(grouped, xs) ==
    IF xs = <<>> THEN grouped
    ELSE GroupByStatusLoop(GroupAppend(grouped, StatusKey(Head(xs)), Head(xs)), Tail(xs))

\* OrderOrganizer.group_by_status
GroupByStatus(xs) == GroupByStatusLoop(<<>>, xs)

\* a key that replaces None alone, not the empty string
FulfillmentKeyNoneOnly(order) ==
    IF order.fulfillment_status = VNone THEN "unfulfilled"
    ELSE Lower(PyStr(order.fulfillment_status))

\* (order.fulfillment_status or "unfulfilled").lower()
FulfillmentKey(order) == Lower(PyStr(Or(order.fulfillment_status, VStr("unfulfilled"))))

RECURSIVE GroupByFulfillmentLoop(_, _)
GroupByFulfillmentLoop(grouped, xs) ==
    IF xs = <<>> THEN grouped
    ELSE GroupByFulfillmentLoop(GroupAppend(grouped, FulfillmentKey(Head(xs)), Head(xs)),
                                Tail(xs))

\* OrderOrganizer.group_by_fulfillment
GroupByFulfillment(xs) == GroupByFulfillmentLoop(<<>>, xs)

OrderSummary(total_orders, open_orders, total_revenue, total_items) ==
    [total_orders |-> total_orders, open_orders |-> open_orders,
     total_revenue |-> total_revenue, total_items |-> total_items]

RECURSIVE SummaryLoop(_, _)
\* the loop of OrderOrganizer.summary
SummaryLoop(acc, xs) ==
    IF xs = <<>> THEN acc
    ELSE SummaryLoop(
            OrderSummary(acc.total_orders + 1,
                         acc.open_orders + (IF IsOpen(Head(xs)) THEN 1 ELSE 0),
                         acc.total_revenue + Head(xs).total_price,
                         acc.total_items + TotalQuantity(Head(xs))),
            Tail(xs))

\* OrderOrganizer.summary; round(total_revenue, 2) of a sum of prices in
\* whole hundredths is that sum
Summary(xs) == SummaryLoop(OrderSummary(0, 0, 0, 0), xs)

\* An iterable of orders: a list can be passed over again and again, a
\* one-shot iterable (an iterator, a generator) is empty after one pass.
Iterable(items, oneshot) == [items |-> items, oneshot |-> oneshot]
Pass(it) == it.items
AfterPass(it) == IF it.oneshot THEN Iterable(<<>>, TRUE) ELSE it

\* the iterable handed on as it is
NoList(it) == it

\* list(orders)
ListOf(it) == Iterable(Pass(it), FALSE)

\* {k: len(v) for k, v in grouped.items()}
Counts(grouped) ==
    [i \in 1..Len(grouped) |-> [key |-> grouped[i].key, count |-> Len(grouped[i].value)]]

\* OrderOrganizer.to_report: three passes over orders_list
ToReport(it) ==
    LET orders_list == ListOf(it)
        second == AfterPass(orders_list)
        third == AfterPass(second)
    IN  [summary |-> Summary(Pass(orders_list)),
         by_status |-> Counts(GroupByStatus(Pass(second))),
         by_fulfillment |-> Counts(GroupByFulfillment(Pass(third)))]

-----------------------------------------------------------------------------
(* service.py                                                              *)

\* OrderService.__post_init__ on an empty mapping
DefaultImporters ==
    [k \in {"etsy", "shopify"} |-> IF k = "etsy" THEN EtsyOrderImporter ELSE ShopifyOrderImporter]

\* OrderService.__post_init__: an empty mapping is seeded, in place
PostInit(m) == IF DOMAIN m = {} THEN DefaultImporters ELSE m

\* one mapping object that every service built without a mapping shares
SharedDefault(ms) == 1

\* field(default_factory=dict): the mapping of a service built without
\* one is a new object
DefaultFactory(ms) == Len(ms) + 1

\* a lookup that forgets to lowercase the platform
GetImporterExcNoLower(imps, platform) ==
    IF platform \notin DOMAIN imps THEN "KeyError" ELSE "none"

\* OrderService._get_importer: the KeyError names the platform as given
GetImporterExc(imps, platform) ==
    IF Lower(platform) \notin DOMAIN imps THEN "KeyError" ELSE "none"

GetImporter(imps, platform) == imps[Lower(platform)]

\* OrderService.import_orders
ServiceImportOrders(imps, platform, raw_orders, clk) ==
    IF GetImporterExc(imps, platform) # "none"
    THEN Raises(GetImporterExc(imps, platform), platform)
    ELSE BaseImportOrders(GetImporter(imps, platform), raw_orders, clk)

RECURSIVE ImportAllLoop(_, _, _)
\* the loop of OrderService.import_all over payload.items(): all_orders,
\* or the first error met
ImportAllLoop(imps, payload, clk) ==
    IF payload = <<>> THEN Returns(<<>>)
    ELSE LET group == ServiceImportOrders(imps, Head(payload).platform, Head(payload).raw_orders, clk)
             rest == ImportAllLoop(imps, Tail(payload), clk)
         IN  IF group.exc # "none" THEN group
             ELSE IF rest.exc # "none" THEN rest
             ELSE Returns(group.value \o rest.value)

\* OrderService.import_all
ServiceImportAll(imps, payload, clk) ==
    LET all_orders == ImportAllLoop(imps, payload, clk)
    IN  IF all_orders.exc # "none" THEN all_orders ELSE SortOrders(all_orders.value, FALSE)

\* a registration that keeps an importer already there
RegisterImporterKeepOld(imps, importer) ==
    [k \in DOMAIN imps \cup {Lower(importer.platform)} |->
        IF k \in DOMAIN imps THEN imps[k] ELSE importer]

\* OrderService.register_importer: the mapping after the call
RegisterImporterMap(imps, importer) ==
    [k \in DOMAIN imps \cup {Lower(importer.platform)} |->
        IF k = Lower(importer.platform) THEN importer ELSE imps[k]]

-----------------------------------------------------------------------------
(* ui/server.py: DashboardState                                            *)

\* a filter key that keeps the letter case of the filter
FilterKeyExact(v) == IF Truthy(v) THEN v ELSE VNone

\* status.lower() if status else None
FilterKey(v) == IF Truthy(v) THEN VStr(Lower(v.s)) ELSE VNone

\* the loop of filter_orders: an order is skipped when a key is set and
\* its lowercased field differs from the key
Filtered(state_orders, status_key, platform_key) ==
    SelectSeq(state_orders,
              LAMBDA order :
                 /\ ~(Truthy(status_key) /\ Lower(order.status) # status_key.s)
                 /\ ~(Truthy(platform_key) /\ Lower(order.platform) # platform_key.s))

\* DashboardState.filter_orders
FilterOrders(state_orders, status, platform) ==
    SortOrders(Filtered(state_orders, FilterKey(status), FilterKey(platform)), TRUE)

\* the key of an order in upsert_orders
OrderKey(order) == <<Lower(order.platform), order.id>>

\* d[key] = order on a dict held as the sequence of its items: a key
\* already there keeps its place and takes the new value
DictSet(d, order) ==
    IF \E i \in 1..Len(d) : d[i].key = OrderKey(order)
    THEN [i \in 1..Len(d) |->
            IF d[i].key = OrderKey(order) THEN [key |-> d[i].key, value |-> order] ELSE d[i]]
    ELSE Append(d, [key |-> OrderKey(order), value |-> order])

RECURSIVE DictUpdate(_, _)
\* d after d[key(order)] = order for each of xs in turn
DictUpdate(d, xs) ==
    IF xs = <<>> THEN d ELSE DictUpdate(DictSet(d, Head(xs)), Tail(xs))

\* existing.values() in upsert_orders
Existing(state_orders, new_orders) ==
    LET d == DictUpdate(DictUpdate(<<>>, state_orders), new_orders)
    IN  [i \in 1..Len(d) |-> d[i].value]

\* DashboardState.upsert_orders: what it returns or raises; value is
\* state.orders after the call, left as it was when the sort raises
UpsertOrders(state_orders, new_orders) ==
    LET sorted == SortOrders(Existing(state_orders, new_orders), TRUE)
    IN  IF sorted.exc # "none" THEN Raises(sorted.exc, "") ELSE sorted

-----------------------------------------------------------------------------
(* Inputs: raw payloads, as mappings over every key an importer reads.     *)

EmptyTransaction ==
    [currency_code |-> VAbsent, product_id |-> VAbsent, listing_id |-> VAbsent,
     title |-> VAbsent, name |-> VAbsent, quantity |-> VAbsent, price |-> VAbsent,
     transaction_total |-> VAbsent, transaction_id |-> VAbsent]

EmptyLineItem ==
    [sku |-> VAbsent, variant_id |-> VAbsent, title |-> VAbsent, quantity |-> VAbsent,
     price |-> VAbsent, currency |-> VAbsent, variant_title |-> VAbsent,
     fulfillment_status |-> VAbsent]

\* the mapping {}
EmptyPayload ==
    [receipt_id |-> VAbsent, order_id |-> VAbsent,
     buyer |-> [t |-> "absent", fields |-> NoBuyer],
     creation_tsz |-> VAbsent, status |-> VAbsent, currency_code |-> VAbsent,
     transactions |-> [t |-> "absent", items |-> <<>>],
     grandtotal |-> VAbsent, fulfillment_status |-> VAbsent, was_paid |-> VAbsent,
     id |-> VAbsent, customer |-> [t |-> "absent", fields |-> NoCustomer],
     email |-> VAbsent, created_at |-> VAbsent, financial_status |-> VAbsent,
     currency |-> VAbsent, line_items |-> [t |-> "absent", items |-> <<>>],
     total_price |-> VAbsent, customer_name |-> VAbsent, customer_email |-> VAbsent,
     quantity |-> VAbsent]

\* the Etsy payload of test_import_all_combines_platforms, its epoch
\* shortened to 1
EtsyA ==
    [EmptyPayload EXCEPT
        !.receipt_id = VStr("1"), !.creation_tsz = VInt(1),
        !.buyer = [t |-> "dict", fields |-> [name |-> VStr("Ada"), username |-> VAbsent,
                                             email |-> VStr("ada@example.com")]],
        !.transactions = [t |-> "list", items |->
            <<[EmptyTransaction EXCEPT !.listing_id = VStr("A"), !.quantity = VInt(1),
                                       !.price = VStr("10.00")]>>]]

\* an Etsy payload whose timestamp is ISO-8601 text without an offset
EtsyNaive ==
    [EmptyPayload EXCEPT !.receipt_id = VStr("2"), !.creation_tsz = VStr("1970-01-01T00:00:01")]

\* an Etsy payload with a quantity that is no number
EtsyBadQuantity ==
    [EmptyPayload EXCEPT
        !.receipt_id = VStr("3"), !.creation_tsz = VInt(1),
        !.transactions = [t |-> "list", items |->
            <<[EmptyTransaction EXCEPT !.quantity = VStr("abc")]>>]]

\* the Shopify payload of test_import_all_combines_platforms, its
\* timestamp the same instant as EtsyA's
ShopifyA ==
    [EmptyPayload EXCEPT
        !.id = VInt(2), !.created_at = VStr("1970-01-01T00:00:01Z"),
        !.customer = [t |-> "dict", fields |-> [first_name |-> VStr("Grace"),
                                                last_name |-> VStr("Hopper"), name |-> VAbsent,
                                                email |-> VStr("grace@example.com")]],
        !.line_items = [t |-> "list", items |->
            <<[EmptyLineItem EXCEPT !.sku = VStr("B"), !.quantity = VInt(2),
                                    !.price = VStr("5.00")]>>]]

\* a payload with an id, a status, two transactions, two line items and
\* no timestamp
Undated ==
    [EmptyPayload EXCEPT
        !.receipt_id = VStr("4"), !.id = VInt(4),
        !.status = VStr("Closed"), !.financial_status = VStr("Paid"),
        !.transactions = [t |-> "list", items |->
            <<[EmptyTransaction EXCEPT !.listing_id = VStr("X"), !.quantity = VInt(1),
                                       !.price = VStr("3.00")],
              [EmptyTransaction EXCEPT !.listing_id = VStr("Y"), !.quantity = VInt(2),
                                       !.price = VStr("5.00")]>>],
        !.line_items = [t |-> "list", items |->
            <<[EmptyLineItem EXCEPT !.sku = VStr("X"), !.quantity = VInt(1),
                                    !.price = VStr("3.00")],
              [EmptyLineItem EXCEPT !.sku = VStr("Y"), !.quantity = VInt(2),
                                    !.price = VStr("5.00")]>>]]

\* The raw orders the calls draw from, by name; a call's arguments hold
\* the names.
RawNames == {"EtsyA", "EtsyNaive", "EtsyBadQuantity", "ShopifyA", "Undated"}

RawOrder(name) ==
    CASE name = "EtsyA" -> EtsyA
      [] name = "EtsyNaive" -> EtsyNaive
      [] name = "EtsyBadQuantity" -> EtsyBadQuantity
      [] name = "ShopifyA" -> ShopifyA
      [] OTHER -> Undated

\* the raw-order sequence that a sequence of names stands for
RawSeq(names) == [i \in 1..Len(names) |-> RawOrder(names[i])]

\* the import_all payload that a sequence of named groups stands for
RawPayload(groups) ==
    [i \in 1..Len(groups) |->
        [platform |-> groups[i].platform, raw_orders |-> RawSeq(groups[i].raw_orders)]]

\* the platform names a caller asks for; "woocommerce" has no importer
\* until one is registered
Platforms == {"etsy", "Etsy", "shopify", "woocommerce"}

\* the importers a caller registers: those of tests/test_service.py, the
\* first one for a platform of its own
Registrable ==
    {Importer("DummyImporter", "WooCommerce"), Importer("AlternativeEtsyImporter", "etsy")}

\* the sequences over S of length at most n
SeqsUpTo(S, n) == UNION {[1..k -> S] : k \in 0..n}

RECURSIVE PayloadsFrom(_, _)
\* The import_all payloads: a mapping in iteration order, as a sequence of
\* groups with distinct keys; groups plus raw orders number at most budget.
PayloadsFrom(used, budget) ==
    {<<>>} \cup
    (IF budget = 0 THEN {}
     ELSE UNION {UNION {{<<[platform |-> k, raw_orders |-> r]>> \o rest :
                            rest \in PayloadsFrom(used \cup {k}, budget - 1 - Len(r))} :
                        r \in SeqsUpTo(RawNames, budget - 1)} :
                 k \in Platforms \ used})

Payloads == PayloadsFrom({}, MaxPayload)

\* The orders handed to the organizer: those of
\* test_report_provides_summary (open, 2 x 3.00; completed, 1 x 5.00) and
\* orders that differ from them in the letter case of the status, in the
\* fulfillment status, in the items and in created_at.
SampleItem(sku, quantity, price) == OrderItem(sku, "", quantity, price, "USD", <<>>)

SampleOrder(id, created_at, status, fulfillment_status, items) ==
    Order(id, "etsy", created_at, "", "", status, "USD", SumSubtotals(items), items,
          fulfillment_status)

OrganizerOrders ==
    {SampleOrder("1", FromTimestamp(100), "open", VStr("pending"), <<SampleItem("A", 2, 300)>>),
     SampleOrder("2", FromTimestamp(200), "completed", VStr("Shipped"),
                 <<SampleItem("B", 1, 500)>>),
     SampleOrder("3", FromTimestamp(100), "Open", VNone, <<>>),
     SampleOrder("4", FromTimestamp(200), "PROCESSING", VStr(""),
                 <<SampleItem("C", 1, 100), SampleItem("D", 3, 200)>>),
     SampleOrder("5", FromTimestamp(100), "unfulfilled", VStr("Unfulfilled"),
                 <<SampleItem("E", 1, 100)>>),
     SampleOrder("6", DateTime(FALSE, 100, 0), "closed", VStr("shipped"), <<>>)}

-----------------------------------------------------------------------------
(* Inputs of parse_order: payloads with every subset of the fields absent, *)
(* and payloads with one field given each of the forms a loosely typed     *)
(* source sends.                                                           *)

\* the mapping full with only the keys of keep left in
Restrict(full, empty, keep) ==
    [k \in DOMAIN empty |-> IF k \in keep THEN full[k] ELSE empty[k]]

TransactionFull ==
    [currency_code |-> VStr("GBP"), product_id |-> VStr("P1"), listing_id |-> VStr("A"),
     title |-> VStr("Notebook"), name |-> VStr("nb"), quantity |-> VInt(2),
     price |-> VStr("10.00"), transaction_total |-> VStr("5.00"),
     transaction_id |-> VStr("T1")]

BuyerFull ==
    [name |-> VStr("Ada"), username |-> VStr("ada42"), email |-> VStr("ada@example.com")]

EtsyKeys ==
    {"receipt_id", "order_id", "buyer", "creation_tsz", "status", "currency_code",
     "transactions", "grandtotal", "fulfillment_status", "was_paid"}

EtsyFull ==
    [EmptyPayload EXCEPT
        !.receipt_id = VStr("1"), !.order_id = VStr("9"),
        !.buyer = [t |-> "dict", fields |-> BuyerFull],
        !.creation_tsz = VInt(1), !.status = VStr("Closed"), !.currency_code = VStr("EUR"),
        !.transactions = [t |-> "list", items |-> <<TransactionFull>>],
        !.grandtotal = VStr("12.50"), !.fulfillment_status = VStr("shipped"),
        !.was_paid = VBool(TRUE)]

LineItemFull ==
    [sku |-> VStr("B"), variant_id |-> VInt(3), title |-> VStr("Sticker Pack"),
     quantity |-> VInt(2), price |-> VStr("5.00"), currency |-> VStr("GBP"),
     variant_title |-> VStr("Large"), fulfillment_status |-> VStr("fulfilled")]

CustomerFull ==
    [first_name |-> VStr("Grace"), last_name |-> VStr("Hopper"), name |-> VStr("G. Hopper"),
     email |-> VStr("grace@example.com")]

ShopifyKeys ==
    {"id", "customer", "email", "created_at", "financial_status", "fulfillment_status",
     "currency", "line_items", "total_price"}

ShopifyFull ==
    [EmptyPayload EXCEPT
        !.id = VInt(2), !.customer = [t |-> "dict", fields |-> CustomerFull],
        !.email = VStr("top@example.com"), !.created_at = VStr("1970-01-01T00:00:02Z"),
        !.financial_status = VStr("paid"), !.fulfillment_status = VStr("fulfilled"),
        !.currency = VStr("EUR"),
        !.line_items = [t |-> "list", items |-> <<LineItemFull>>],
        !.total_price = VStr("5.00")]

\* Etsy payloads of well-formed fields, any subset of them absent, at the
\* top level, in the buyer and in the transaction
EtsyPresence ==
    {Restrict(EtsyFull, EmptyPayload, keep) : keep \in SUBSET EtsyKeys}
    \cup {[EtsyFull EXCEPT !.buyer.fields = Restrict(BuyerFull, NoBuyer, keep)] :
             keep \in SUBSET DOMAIN BuyerFull}
    \cup {[EtsyFull EXCEPT !.grandtotal = VAbsent, !.transactions.items =
                <<Restrict(TransactionFull, EmptyTransaction, keep)>>] :
             keep \in SUBSET DOMAIN TransactionFull}

\* the same for Shopify
ShopifyPresence ==
    {Restrict(ShopifyFull, EmptyPayload, keep) : keep \in SUBSET ShopifyKeys}
    \cup {[ShopifyFull EXCEPT !.customer.fields = Restrict(CustomerFull, NoCustomer, keep)] :
             keep \in SUBSET DOMAIN CustomerFull}
    \cup {[ShopifyFull EXCEPT !.total_price = VAbsent, !.line_items.items =
                <<Restrict(LineItemFull, EmptyLineItem, keep)>>] :
             keep \in SUBSET DOMAIN LineItemFull}

\* the forms of a timestamp field
TimestampForms ==
    {VInt(1), VInt(0), VFloat(150), VBool(TRUE), VStr("1"), VStr("1970-01-01T00:00:01+00:00"),
     VStr("1970-01-01T01:00:01+01:00"), VStr("1970-01-01T00:00:01"),
     VStr("1970-01-01T00:00:02Z"), VStr("not-a-date"), VStr(""), VNone}

\* the forms of a number field; "abc", "2.0" (for an int) and "1,5" are
\* no numbers
NumberForms ==
    {VInt(2), VInt(0), VFloat(1250), VStr("2"), VStr("10.00"), VStr("0"), VStr(""),
     VStr("abc"), VStr("1,5"), VNone}

\* the forms of a text field
TextForms == {VStr("x"), VStr(""), VInt(7), VInt(0), VBool(TRUE), VBool(FALSE), VNone}

\* Etsy payloads with one field in each of its forms, the other fields
\* all there or all absent
EtsyForms ==
    UNION {
        {[base EXCEPT !.creation_tsz = v] : v \in TimestampForms \ {VStr("1970-01-01T00:00:02Z")}}
        \cup {[base EXCEPT !.grandtotal = v] : v \in NumberForms}
        \cup {[base EXCEPT !.transactions = [t |-> "list", items |->
                    <<[TransactionFull EXCEPT !.quantity = v]>>]] : v \in NumberForms}
        \cup {[base EXCEPT !.transactions = [t |-> "list", items |->
                    <<[TransactionFull EXCEPT !.price = v]>>]] : v \in NumberForms}
        \cup {[base EXCEPT !.transactions = [t |-> "list", items |->
                    <<EmptyTransaction, [EmptyTransaction EXCEPT !.transaction_total = v]>>]] :
                 v \in NumberForms}
        \cup {[base EXCEPT !.receipt_id = v] : v \in TextForms}
        \cup {[base EXCEPT !.status = v] : v \in TextForms}
        \cup {[base EXCEPT !.fulfillment_status = v] : v \in TextForms}
        \cup {[base EXCEPT !.was_paid = v] : v \in TextForms}
        : base \in {EtsyFull, EmptyPayload}}

\* the same for Shopify
ShopifyForms ==
    UNION {
        {[base EXCEPT !.created_at = v] : v \in TimestampForms}
        \cup {[base EXCEPT !.total_price = v] : v \in NumberForms}
        \cup {[base EXCEPT !.line_items = [t |-> "list", items |->
                    <<[LineItemFull EXCEPT !.quantity = v]>>]] : v \in NumberForms}
        \cup {[base EXCEPT !.line_items = [t |-> "list", items |->
                    <<EmptyLineItem, [EmptyLineItem EXCEPT !.price = v]>>]] : v \in NumberForms}
        \cup {[base EXCEPT !.id = v] : v \in TextForms}
        \cup {[base EXCEPT !.financial_status = v] : v \in TextForms}
        \cup {[base EXCEPT !.fulfillment_status = v] : v \in TextForms}
        \cup {[base EXCEPT !.customer.fields.first_name = v] : v \in {VStr(" "), VStr(" Grace ")}}
        : base \in {ShopifyFull, EmptyPayload}}

ParsePayloads == EtsyPresence \cup ShopifyPresence \cup EtsyForms \cup ShopifyForms

-----------------------------------------------------------------------------
(* The calls.                                                              *)

NoCall ==
    [op |-> "none", platform |-> "", raw_orders |-> <<>>, payload |-> <<>>,
     raw |-> EmptyPayload, new_orders |-> <<>>, importer |-> EtsyOrderImporter,
     replace |-> FALSE, reverse |-> FALSE, oneshot |-> FALSE, service |-> 0,
     status_filter |-> VNone, platform_filter |-> VNone,
     importers |-> DefaultImporters, orders |-> <<>>]

NoResult == Returns(<<>>)

\* OrderService(): the registry seeded by __post_init__; the dashboard
\* state is not built
Init ==
    /\ clock = ClockStart
    /\ mappings = <<>>
    /\ services = <<>>
    /\ handlers = <<>>
    /\ importers = DefaultImporters
    /\ orders = <<>>
    /\ pc = "idle"
    /\ call = NoCall
    /\ result = NoResult

\* time passes between two calls
Tick ==
    /\ pc = "idle"
    /\ clock < MaxClock
    /\ clock' = clock + 1
    /\ UNCHANGED <<importers, orders, pc, call, result, mappings, services, handlers>>

\* service.register_importer(importer), or with the keyword replace=True
\* that the method does not take: Python raises TypeError before the body
RegisterImporter(importer, replace) ==
    /\ pc = "idle"
    /\ call' = [NoCall EXCEPT !.op = "register_importer", !.importer = importer,
                              !.replace = replace, !.importers = importers]
    /\ IF replace
       THEN /\ result' = Raises("TypeError", "")
            /\ importers' = importers
       ELSE /\ result' = Returns(<<>>)
            /\ importers' = RegisterImporterMap(importers, importer)
    /\ pc' = "returned"
    /\ UNCHANGED <<clock, orders, mappings, services, handlers>>

\* service.import_orders(platform, raw_orders)
ImportOrders(platform, raw_orders) ==
    /\ pc = "idle"
    /\ call' = [NoCall EXCEPT !.op = "import_orders", !.platform = platform,
                              !.raw_orders = raw_orders, !.importers = importers]
    /\ result' = ServiceImportOrders(importers, platform, RawSeq(raw_orders), clock)
    /\ pc' = "returned"
    /\ UNCHANGED <<clock, importers, orders, mappings, services, handlers>>

\* service.import_all(payload)
ImportAll(payload) ==
    /\ pc = "idle"
    /\ call' = [NoCall EXCEPT !.op = "import_all", !.payload = payload,
                              !.importers = importers]
    /\ result' = ServiceImportAll(importers, RawPayload(payload), clock)
    /\ pc' = "returned"
    /\ UNCHANGED <<clock, importers, orders, mappings, services, handlers>>

\* the caller takes the result and goes on
Return ==
    /\ pc = "returned"
    /\ pc' = "idle"
    /\ call' = NoCall
    /\ result' = NoResult
    /\ UNCHANGED <<clock, importers, orders, mappings, services, handlers>>

Next ==
    \/ Tick
    \/ pc = "idle" /\ \E importer \in Registrable, replace \in BOOLEAN :
          RegisterImporter(importer, replace)
    \/ pc = "idle" /\ \E platform \in Platforms, raw_orders \in SeqsUpTo(RawNames, MaxRaw) :
          ImportOrders(platform, raw_orders)
    \/ pc = "idle" /\ \E payload \in Payloads : ImportAll(payload)
    \/ Return

Spec == Init /\ [][Next]_vars

\* importer.parse_order(payload) on its own
CallParseOrder(importer, payload) ==
    /\ pc = "idle"
    /\ call' = [NoCall EXCEPT !.op = "parse_order", !.importer = importer,
                              !.raw = payload, !.importers = importers]
    /\ result' = IF ParseExc(importer, payload) # "none"
                 THEN Raises(ParseExc(importer, payload), "")
                 ELSE Returns(<<ParseOrder(importer, payload, clock)>>)
    /\ pc' = "returned"
    /\ UNCHANGED <<clock, importers, orders, mappings, services, handlers>>

\* importer.parse_order(payload) twice, the second call at a reading of
\* the clock that is the first call's or a later one
ParseTwice(importer, payload) ==
    /\ pc = "idle"
    /\ \E later \in clock..MaxClock :
          /\ clock' = later
          /\ result' = IF ParseExc(importer, payload) # "none"
                       THEN Raises(ParseExc(importer, payload), "")
                       ELSE Returns(<<ParseOrder(importer, payload, clock),
                                      ParseOrder(importer, payload, later)>>)
    /\ call' = [NoCall EXCEPT !.op = "parse_twice", !.importer = importer,
                              !.raw = payload, !.importers = importers]
    /\ pc' = "returned"
    /\ UNCHANGED <<importers, orders, mappings, services, handlers>>

NextParse ==
    \/ Tick
    \/ pc = "idle" /\ \E payload \in ParsePayloads :
          CallParseOrder(EtsyOrderImporter, payload)
    \/ pc = "idle" /\ \E payload \in ParsePayloads :
          CallParseOrder(ShopifyOrderImporter, payload)
    \/ pc = "idle" /\ \E importer \in {EtsyOrderImporter, ShopifyOrderImporter},
                         payload \in ParsePayloads : ParseTwice(importer, payload)
    \/ Return

\* the importers on their own
SpecParse == Init /\ [][NextParse]_vars

\* launch_dashboard: the state starts with import_all of the payload
\* file; a payload on which import_all raises starts no server
LaunchOrders ==
    {ServiceImportAll(DefaultImporters, RawPayload(payload), ClockStart).value :
        payload \in {p \in PayloadsFrom({}, MaxLaunch) :
            ServiceImportAll(DefaultImporters, RawPayload(p), ClockStart).exc = "none"}}

InitDashboard ==
    /\ clock = ClockStart
    /\ mappings = <<>>
    /\ services = <<>>
    /\ handlers = <<>>
    /\ importers = DefaultImporters
    /\ orders \in LaunchOrders
    /\ pc = "idle"
    /\ call = NoCall
    /\ result = NoResult

\* DashboardHandler._handle_import_etsy on an upload that holds
\* raw_orders: import them with a fresh OrderService, then upsert_orders.
\* An import that raises ends the request before upsert_orders is called.
HandleImportEtsy(raw_orders) ==
    LET imported == ServiceImportOrders(DefaultImporters, "etsy", RawSeq(raw_orders), clock)
        upserted == UpsertOrders(orders, imported.value)
    IN  /\ pc = "idle"
        /\ IF imported.exc # "none"
           THEN /\ call' = [NoCall EXCEPT !.op = "import_etsy", !.raw_orders = raw_orders,
                                          !.orders = orders]
                /\ result' = imported
                /\ orders' = orders
           ELSE /\ call' = [NoCall EXCEPT !.op = "upsert_orders", !.raw_orders = raw_orders,
                                          !.new_orders = imported.value, !.orders = orders]
                /\ result' = [upserted EXCEPT !.value = <<>>]
                /\ orders' = IF upserted.exc # "none" THEN orders ELSE upserted.value
        /\ pc' = "returned"
        /\ UNCHANGED <<clock, importers, mappings, services, handlers>>

\* the filters of a dashboard request: none, an empty one, and names in
\* either letter case
StatusFilters == {VNone, VStr(""), VStr("open"), VStr("Closed")}
PlatformFilters == {VNone, VStr(""), VStr("Etsy"), VStr("shopify")}

\* state.filter_orders(status=status, platform=platform)
CallFilterOrders(status, platform) ==
    /\ pc = "idle"
    /\ call' = [NoCall EXCEPT !.op = "filter_orders", !.status_filter = status,
                              !.platform_filter = platform, !.orders = orders]
    /\ result' = FilterOrders(orders, status, platform)
    /\ pc' = "returned"
    /\ UNCHANGED <<clock, importers, orders, mappings, services, handlers>>

NextDashboard ==
    \/ Tick
    \/ pc = "idle" /\ \E status \in StatusFilters, platform \in PlatformFilters :
          CallFilterOrders(status, platform)
    \/ pc = "idle" /\ \E raw_orders \in SeqsUpTo(RawNames, MaxRaw) \ {<<>>} :
          HandleImportEtsy(raw_orders)
    \/ Return

\* the dashboard server, one request at a time
SpecDashboard == InitDashboard /\ [][NextDashboard]_vars

\* The caller of the organizer holds a list of orders.
InitOrganizer ==
    /\ clock = ClockStart
    /\ mappings = <<>>
    /\ services = <<>>
    /\ handlers = <<>>
    /\ importers = DefaultImporters
    /\ orders \in SeqsUpTo(OrganizerOrders, MaxOrders)
    /\ pc = "idle"
    /\ call = NoCall
    /\ result = NoResult

\* organizer.summary(orders)
CallSummary ==
    /\ pc = "idle"
    /\ call' = [NoCall EXCEPT !.op = "summary", !.orders = orders]
    /\ result' = Returns(<<Summary(orders)>>)
    /\ pc' = "returned"
    /\ UNCHANGED <<clock, importers, orders, mappings, services, handlers>>

\* organizer.group_by_status(orders)
CallGroupByStatus ==
    /\ pc = "idle"
    /\ call' = [NoCall EXCEPT !.op = "group_by_status", !.orders = orders]
    /\ result' = Returns(GroupByStatus(orders))
    /\ pc' = "returned"
    /\ UNCHANGED <<clock, importers, orders, mappings, services, handlers>>

\* organizer.group_by_fulfillment(orders)
CallGroupByFulfillment ==
    /\ pc = "idle"
    /\ call' = [NoCall EXCEPT !.op = "group_by_fulfillment", !.orders = orders]
    /\ result' = Returns(GroupByFulfillment(orders))
    /\ pc' = "returned"
    /\ UNCHANGED <<clock, importers, orders, mappings, services, handlers>>

\* organizer.to_report(orders) and service.report(orders), which hands
\* its argument on: with the list, or with a one-shot iterable over it
CallToReport(oneshot) ==
    /\ pc = "idle"
    /\ call' = [NoCall EXCEPT !.op = "to_report", !.oneshot = oneshot, !.orders = orders]
    /\ result' = Returns(<<ToReport(Iterable(orders, oneshot))>>)
    /\ pc' = "returned"
    /\ UNCHANGED <<clock, importers, orders, mappings, services, handlers>>

\* organizer.sort_orders(orders, reverse=reverse): sorted() makes a new
\* list and leaves the caller's as it is
CallSortOrders(reverse) ==
    /\ pc = "idle"
    /\ call' = [NoCall EXCEPT !.op = "sort_orders", !.reverse = reverse, !.orders = orders]
    /\ result' = SortOrders(orders, reverse)
    /\ pc' = "returned"
    /\ UNCHANGED <<clock, importers, orders, mappings, services, handlers>>

\* organizer.summary(orders) and organizer.group_by_status(orders) on the
\* same collection, one after the other
CallSummaryAndGroups ==
    /\ pc = "idle"
    /\ call' = [NoCall EXCEPT !.op = "summary_and_groups", !.orders = orders]
    /\ result' = Returns(<<[summary |-> Summary(orders), grouped |-> GroupByStatus(orders)]>>)
    /\ pc' = "returned"
    /\ UNCHANGED <<clock, importers, orders, mappings, services, handlers>>

NextOrganizer ==
    \/ CallSummary
    \/ CallSummaryAndGroups
    \/ CallGroupByStatus
    \/ CallGroupByFulfillment
    \/ \E oneshot \in BOOLEAN : CallToReport(oneshot)
    \/ \E reverse \in BOOLEAN : CallSortOrders(reverse)
    \/ Return

\* the organizer on its own
SpecOrganizer == InitOrganizer /\ [][NextOrganizer]_vars

\* A program that builds several services.
InitServices ==
    /\ clock = ClockStart
    /\ mappings = <<>>
    /\ services = <<>>
    /\ handlers = <<>>
    /\ importers = DefaultImporters
    /\ orders = <<>>
    /\ pc = "idle"
    /\ call = NoCall
    /\ result = NoResult

\* OrderService(): the dataclass takes its mapping from the default
\* factory, and __post_init__ seeds it when it is empty
Construct ==
    LET ref == DefaultFactory(mappings)
        made == IF ref > Len(mappings) THEN Append(mappings, <<>>) ELSE mappings
    IN  /\ pc = "idle"
        /\ Len(services) < MaxServices
        /\ mappings' = [made EXCEPT ![ref] = PostInit(made[ref])]
        /\ services' = Append(services, [ref |-> ref, explicit |-> FALSE])
        /\ call' = [NoCall EXCEPT !.op = "construct", !.service = Len(services) + 1]
        /\ result' = Returns(<<>>)
        /\ pc' = "returned"
        /\ UNCHANGED <<clock, importers, orders, handlers>>

\* OrderService(importers=other.importers): the mapping of the service
\* other is handed over and held, not copied
ConstructWith(other) ==
    /\ pc = "idle"
    /\ Len(services) < MaxServices
    /\ mappings' = [mappings EXCEPT ![services[other].ref] = PostInit(@)]
    /\ services' = Append(services, [ref |-> services[other].ref, explicit |-> TRUE])
    /\ call' = [NoCall EXCEPT !.op = "construct_with", !.service = Len(services) + 1]
    /\ result' = Returns(<<>>)
    /\ pc' = "returned"
    /\ UNCHANGED <<clock, importers, orders, handlers>>

\* services[i].register_importer(importer)
RegisterOn(i, importer) ==
    /\ pc = "idle"
    /\ mappings' = [mappings EXCEPT ![services[i].ref] = RegisterImporterMap(@, importer)]
    /\ call' = [NoCall EXCEPT !.op = "register_on", !.service = i, !.importer = importer]
    /\ result' = Returns(<<>>)
    /\ pc' = "returned"
    /\ UNCHANGED <<clock, importers, orders, services, handlers>>

\* services[i]._get_importer(platform), the lookup of import_orders and
\* import_all
LookupOn(i, platform) ==
    LET imps == mappings[services[i].ref]
    IN  /\ pc = "idle"
        /\ call' = [NoCall EXCEPT !.op = "lookup_on", !.service = i, !.platform = platform]
        /\ result' = IF GetImporterExc(imps, platform) # "none"
                     THEN Raises(GetImporterExc(imps, platform), platform)
                     ELSE Returns(<<GetImporter(imps, platform)>>)
        /\ pc' = "returned"
        /\ UNCHANGED <<clock, importers, orders, mappings, services, handlers>>

NextServices ==
    \/ Construct
    \/ \E other \in 1..Len(services) : ConstructWith(other)
    \/ \E i \in 1..Len(services), importer \in Registrable : RegisterOn(i, importer)
    \/ \E i \in 1..Len(services), platform \in Platforms : LookupOn(i, platform)
    \/ Return

SpecServices == InitServices /\ [][NextServices]_vars

\* ThreadingHTTPServer runs each request in a thread of its own, all on
\* the one DashboardState; these are the threads of two import requests.
Threads == {1, 2}

Handler(at, new_orders, existing, exc) ==
    [at |-> at, new_orders |-> new_orders, existing |-> existing, exc |-> exc]

InitConcurrent ==
    /\ clock = ClockStart
    /\ mappings = <<>>
    /\ services = <<>>
    /\ handlers = [t \in Threads |-> Handler("start", <<>>, <<>>, "none")]
    /\ importers = DefaultImporters
    /\ orders \in LaunchOrders
    /\ pc = "idle"
    /\ call = NoCall
    /\ result = NoResult

\* _handle_import_etsy up to the call of upsert_orders: the thread t
\* imports the upload, the raw order named name, with a service of its
\* own; an import that raises ends the request
HandlerImport(t, name) ==
    LET imported == ServiceImportOrders(DefaultImporters, "etsy", RawSeq(<<name>>), clock)
    IN  /\ handlers[t].at = "start"
        /\ handlers' = [handlers EXCEPT ![t] =
              IF imported.exc # "none" THEN Handler("done", <<>>, <<>>, imported.exc)
              ELSE Handler("imported", imported.value, <<>>, "none")]
        /\ UNCHANGED <<clock, importers, orders, pc, call, result, mappings, services>>

\* upsert_orders, first part: the thread reads self.orders and builds
\* existing from it and from its batch
HandlerRead(t) ==
    /\ handlers[t].at = "imported"
    /\ handlers' = [handlers EXCEPT ![t] =
          Handler("read", @.new_orders, Existing(orders, @.new_orders), "none")]
    /\ UNCHANGED <<clock, importers, orders, pc, call, result, mappings, services>>

\* upsert_orders, last part: the thread sorts existing and assigns the
\* new list to self.orders; no lock is held from the read to here
HandlerWrite(t) ==
    LET sorted == SortOrders(handlers[t].existing, TRUE)
    IN  /\ handlers[t].at = "read"
        /\ handlers' = [handlers EXCEPT ![t] =
              Handler("done", @.new_orders, @.existing, sorted.exc)]
        /\ orders' = IF sorted.exc # "none" THEN orders ELSE sorted.value
        /\ UNCHANGED <<clock, importers, pc, call, result, mappings, services>>

NextConcurrent ==
    \/ \E t \in Threads, name \in RawNames : HandlerImport(t, name)
    \/ \E t \in Threads : HandlerRead(t)
    \/ \E t \in Threads : HandlerWrite(t)

\* the dashboard server with two import requests in flight
SpecConcurrent == InitConcurrent /\ [][NextConcurrent]_vars

-----------------------------------------------------------------------------
(* Claims about OrderService.                                              *)

Returned(op) == pc = "returned" /\ call.op = op

\* the registry key a call's platform stands for
KeyOf(platform) == Lower(platform)

\* C1: import_orders with a platform whose lowercased key is not in the
\* registry raises KeyError naming the platform as requested, returns no
\* orders and leaves the registry unchanged; with a registered key it
\* returns (or raises) exactly what that importer's import_orders does.
C1_ImportOrdersLookup ==
    Returned("import_orders") =>
        IF KeyOf(call.platform) \notin DOMAIN call.importers
        THEN /\ result.exc = "KeyError"
             /\ result.msg = call.platform
             /\ result.value = <<>>
             /\ importers = call.importers
        ELSE result = BaseImportOrders(call.importers[KeyOf(call.platform)],
                                       RawSeq(call.raw_orders), clock)

\* an unregistered platform is refused, a registered one asked for in
\* another letter case is served
C1_Witness ==
    \/ /\ Returned("import_orders")
       /\ call.platform = "woocommerce"
       /\ result.exc = "KeyError"
       /\ result.msg = "woocommerce"
    \/ /\ Returned("import_orders")
       /\ call.platform = "Etsy"
       /\ Len(result.value) = 2

\* the orders import_all has before it sorts them, in insertion order:
\* group after group in the payload's iteration order, each group by the
\* importer the registry holds for its key
RECURSIVE Inserted(_, _, _)
Inserted(imps, payload, clk) ==
    IF payload = <<>> THEN <<>>
    ELSE BaseImportOrders(imps[KeyOf(Head(payload).platform)],
                          Head(payload).raw_orders, clk).value
         \o Inserted(imps, Tail(payload), clk)

\* C2: register_importer(importer) makes the entry for the lowercased
\* platform of the importer that importer, whether the key was there or
\* not, and leaves the other entries alone; no other step changes the
\* registry; every import_orders and import_all lookup, in any letter
\* case, is served by the importer the registry holds for the key.
C2_Step ==
    /\ (pc = "idle" /\ call'.op = "register_importer" /\ ~call'.replace) =>
          /\ DOMAIN importers' = DOMAIN importers \cup {KeyOf(call'.importer.platform)}
          /\ importers'[KeyOf(call'.importer.platform)] = call'.importer
          /\ \A k \in DOMAIN importers :
                k # KeyOf(call'.importer.platform) => importers'[k] = importers[k]
    /\ ~(pc = "idle" /\ call'.op = "register_importer") => importers' = importers
    /\ (pc = "idle" /\ call'.op = "import_orders"
           /\ KeyOf(call'.platform) \in DOMAIN importers) =>
          result' = BaseImportOrders(importers[KeyOf(call'.platform)],
                                     RawSeq(call'.raw_orders), clock)
    /\ (pc = "idle" /\ call'.op = "import_all" /\ result'.exc = "none") =>
          \E p \in Permutations(1..Len(result'.value)) :
             result'.value =
                [i \in 1..Len(result'.value) |->
                    Inserted(importers, RawPayload(call'.payload), clock)[p[i]]]

C3_ConflictRequiresReplace ==
    (Returned("register_importer")
        /\ KeyOf(call.importer.platform) \in DOMAIN call.importers) =>
        IF call.replace
        THEN /\ result.exc = "none"
             /\ importers[KeyOf(call.importer.platform)] = call.importer
        ELSE /\ result.exc = "ValueError"
             /\ importers = call.importers

\* xs is in ascending order of created_at
Ascending(xs) ==
    \A i, j \in 1..Len(xs) : i < j => xs[i].created_at.t <= xs[j].created_at.t

RECURSIVE RawCount(_)
\* the number of raw orders of a payload, all groups together
RawCount(payload) ==
    IF payload = <<>> THEN 0 ELSE Len(Head(payload).raw_orders) + RawCount(Tail(payload))

\* C4: the list import_all returns is in ascending order of created_at and
\* has one order per raw order of every group.
C4_ImportAllSorted ==
    (Returned("import_all") /\ result.exc = "none") =>
        /\ Ascending(result.value)
        /\ Len(result.value) = RawCount(call.payload)

\* two groups were imported and the sort had to move an order
C4_Witness ==
    /\ Returned("import_all")
    /\ result.exc = "none"
    /\ Len(call.payload) = 2
    /\ Len(result.value) >= 2
    /\ result.value # Inserted(call.importers, RawPayload(call.payload), clock)

\* C5: in the list import_all returns, orders with equal created_at are in
\* insertion order: the list is the inserted orders rearranged so that of
\* two orders with the same created_at the one inserted first comes first.
C5_ImportAllStable ==
    (Returned("import_all") /\ result.exc = "none") =>
        LET in == Inserted(call.importers, RawPayload(call.payload), clock)
            out == result.value
        IN  /\ Len(out) = Len(in)
            /\ \E p \in Permutations(1..Len(in)) :
                  /\ \A i \in 1..Len(out) : out[i] = in[p[i]]
                  /\ \A i, j \in 1..Len(out) :
                        (i < j /\ out[i].created_at.t = out[j].created_at.t) => p[i] < p[j]

\* two different orders with the same created_at, of two platforms, and
\* after them in the payload an earlier order the sort moves to the front
C5_Witness ==
    /\ Returned("import_all")
    /\ result.exc = "none"
    /\ \E i, j \in 1..Len(result.value) :
          /\ i < j
          /\ result.value[i].created_at.t = result.value[j].created_at.t
          /\ result.value[i].platform # result.value[j].platform

\* the keys of a payload that the registry does not hold
Unregistered(imps, payload) ==
    {payload[i].platform : i \in {i \in 1..Len(payload) : KeyOf(payload[i].platform) \notin DOMAIN imps}}

\* C6: import_all raises the KeyError of import_orders, naming a missing
\* platform, whenever a key of the payload is unregistered, wherever the
\* key sits; no orders are returned.
C6_ImportAllNotFound ==
    (Returned("import_all") /\ Unregistered(call.importers, call.payload) # {}) =>
        /\ result.exc = "KeyError"
        /\ result.msg \in Unregistered(call.importers, call.payload)
        /\ result.value = <<>>

-----------------------------------------------------------------------------
(* Claims about the importers.                                             *)

IsAbsent(v) == v.t = "absent"

\* the defaults of the Etsy order fields other than id
EtsyDefaults(payload, o, clk) ==
    /\ (IsAbsent(payload.buyer.fields.name) /\ IsAbsent(payload.buyer.fields.username)) =>
          o.customer_name = ""
    /\ IsAbsent(payload.buyer.fields.email) => o.customer_email = ""
    /\ IsAbsent(payload.creation_tsz) => o.created_at = Now(clk)
    /\ IsAbsent(payload.status) => o.status = "open"
    /\ IsAbsent(payload.currency_code) => o.currency = "USD"
    /\ payload.transactions.t = "absent" => o.items = <<>>
    /\ (IsAbsent(payload.grandtotal) /\ payload.transactions.t = "absent") => o.total_price = 0
    /\ (IsAbsent(payload.fulfillment_status) /\ IsAbsent(payload.was_paid)) =>
          o.fulfillment_status = VStr("pending")
    /\ Len(o.items) = Len(EtsyTransactions(payload))
    /\ \A i \in 1..Len(o.items) :
          LET tx == EtsyTransactions(payload)[i]
              item == o.items[i]
          IN  /\ (IsAbsent(tx.product_id) /\ IsAbsent(tx.listing_id)) => item.sku = ""
              /\ (IsAbsent(tx.title) /\ IsAbsent(tx.name)) => item.name = ""
              /\ IsAbsent(tx.quantity) => item.quantity = 0
              /\ (IsAbsent(tx.price) /\ IsAbsent(tx.transaction_total)) => item.price = 0
              /\ IsAbsent(tx.currency_code) => item.currency = o.currency
              /\ IsAbsent(tx.transaction_id) => item.metadata = <<<<"transaction_id", "">>>>

\* the defaults of the Shopify order fields other than id
ShopifyDefaults(payload, o, clk) ==
    /\ (\A k \in {"first_name", "last_name", "name"} : IsAbsent(payload.customer.fields[k])) =>
          o.customer_name = ""
    /\ (IsAbsent(payload.customer.fields.email) /\ IsAbsent(payload.email)) =>
          o.customer_email = ""
    /\ IsAbsent(payload.created_at) => o.created_at = Now(clk)
    /\ (IsAbsent(payload.financial_status) /\ IsAbsent(payload.fulfillment_status)) =>
          o.status = "open"
    /\ IsAbsent(payload.currency) => o.currency = "USD"
    /\ payload.line_items.t = "absent" => o.items = <<>>
    /\ (IsAbsent(payload.total_price) /\ payload.line_items.t = "absent") => o.total_price = 0
    /\ IsAbsent(payload.fulfillment_status) => o.fulfillment_status = VNone
    /\ Len(o.items) = Len(ShopifyLineItems(payload))
    /\ \A i \in 1..Len(o.items) :
          LET li == ShopifyLineItems(payload)[i]
              item == o.items[i]
          IN  /\ (IsAbsent(li.sku) /\ IsAbsent(li.variant_id)) => item.sku = ""
              /\ IsAbsent(li.title) => item.name = ""
              /\ IsAbsent(li.quantity) => item.quantity = 0
              /\ IsAbsent(li.price) => item.price = 0
              /\ IsAbsent(li.currency) => item.currency = o.currency
              /\ IsAbsent(li.variant_title) => item.metadata[1] = <<"variant_title", "">>
              /\ IsAbsent(li.fulfillment_status) => item.metadata[2] = <<"fulfillment_status", "">>

ParsedBy(cls) == Returned("parse_order") /\ call.importer.cls = cls

\* With fields absent parse_order does not raise and the fields other
\* than id take their defaults.
DefaultsExceptId ==
    /\ (ParsedBy("EtsyOrderImporter") /\ call.raw \in EtsyPresence) =>
          (result.exc = "none" /\ EtsyDefaults(call.raw, result.value[1], clock))
    /\ (ParsedBy("ShopifyOrderImporter") /\ call.raw \in ShopifyPresence) =>
          (result.exc = "none" /\ ShopifyDefaults(call.raw, result.value[1], clock))

\* C8: on a payload of well-formed fields with any subset of them absent,
\* the empty mapping too, parse_order of Etsy and of Shopify returns an
\* Order without raising, every field of it at its documented default
\* (empty string, zero, "USD", "open" / "pending", current time).
C8_MissingFieldsDefault ==
    /\ DefaultsExceptId
    /\ (ParsedBy("EtsyOrderImporter") /\ call.raw \in EtsyPresence
           /\ IsAbsent(call.raw.receipt_id) /\ IsAbsent(call.raw.order_id)) =>
          (result.exc = "none" /\ result.value[1].id = "")
    /\ (ParsedBy("ShopifyOrderImporter") /\ call.raw \in ShopifyPresence
           /\ IsAbsent(call.raw.id)) =>
          (result.exc = "none" /\ result.value[1].id = "")

\* a value that is no number, and one that is no date
NoNumber(v) == v \in {VStr("abc"), VStr("1,5")}
NoDate(v) == v \in {VStr("not-a-date"), VStr("")}

\* C9: a number or date field that cannot be parsed never makes an
\* importer raise: parse_order returns an Order with the field at its
\* fallback (quantity 0, price 0, the sum of the items for the total, the
\* current time for the timestamp).
C9_MalformedNeverRaises ==
    /\ Returned("parse_order") => result.exc = "none"
    /\ (ParsedBy("EtsyOrderImporter") /\ result.exc = "none") =>
          LET o == result.value[1]
          IN  /\ NoDate(call.raw.creation_tsz) => o.created_at = Now(clock)
              /\ NoNumber(call.raw.grandtotal) => o.total_price = SumSubtotals(o.items)
              /\ \A i \in 1..Len(o.items) :
                    /\ NoNumber(EtsyTransactions(call.raw)[i].quantity) => o.items[i].quantity = 0
                    /\ NoNumber(EtsyTransactions(call.raw)[i].price) => o.items[i].price = 0
    /\ (ParsedBy("ShopifyOrderImporter") /\ result.exc = "none") =>
          LET o == result.value[1]
          IN  /\ NoDate(call.raw.created_at) => o.created_at = Now(clock)
              /\ NoNumber(call.raw.total_price) => o.total_price = SumSubtotals(o.items)
              /\ \A i \in 1..Len(o.items) :
                    /\ NoNumber(ShopifyLineItems(call.raw)[i].quantity) => o.items[i].quantity = 0
                    /\ NoNumber(ShopifyLineItems(call.raw)[i].price) => o.items[i].price = 0

\* C10: every Order the Etsy or the Shopify importer makes has a
\* timezone-aware created_at, whatever the form of the source timestamp.
C10_CreatedAtAware ==
    (Returned("parse_order") /\ result.exc = "none") => result.value[1].created_at.aware

\* the payload has the field, with a value other than None
Present(v) == v.t \notin {"absent", "none"}

\* C19, as stated: the Shopify importer sets status to financial_status
\* when the payload has it, else to fulfillment_status when the payload
\* has that, else to "open"; and the order's fulfillment_status is the
\* payload's fulfillment_status as it is when truthy, else None.
C19_StatusWhenPresent ==
    (ParsedBy("ShopifyOrderImporter") /\ result.exc = "none") =>
        LET financial == call.raw.financial_status
            fulfillment == call.raw.fulfillment_status
            o == result.value[1]
        IN  /\ o.status = IF Present(financial) THEN PyStr(financial)
                          ELSE IF Present(fulfillment) THEN PyStr(fulfillment)
                          ELSE "open"
            /\ o.fulfillment_status = IF Truthy(fulfillment) THEN fulfillment ELSE VNone

\* C19, amended: the Shopify importer sets status to the text of
\* financial_status when that is truthy (there, and not None, empty, zero
\* or False), else to the text of fulfillment_status when that is truthy,
\* else to "open"; and the order's fulfillment_status is the text of the
\* payload's fulfillment_status when truthy, else None.
C19_StatusWhenTruthy ==
    (ParsedBy("ShopifyOrderImporter") /\ result.exc = "none") =>
        LET financial == call.raw.financial_status
            fulfillment == call.raw.fulfillment_status
            o == result.value[1]
        IN  /\ o.status = IF Truthy(financial) THEN PyStr(financial)
                          ELSE IF Truthy(fulfillment) THEN PyStr(fulfillment)
                          ELSE "open"
            /\ o.fulfillment_status =
                  IF Truthy(fulfillment) THEN VStr(PyStr(fulfillment)) ELSE VNone

\* an empty financial_status is passed over for the fulfillment_status
C19_Witness ==
    /\ ParsedBy("ShopifyOrderImporter")
    /\ call.raw.financial_status = VStr("")
    /\ call.raw.fulfillment_status = VStr("fulfilled")
    /\ result.exc = "none"
    /\ result.value[1].status = "fulfilled"
    /\ result.value[1].fulfillment_status = VStr("fulfilled")

\* v is a number or the text of one
IsNumber(v) == v.t \in {"int", "float"} \/ (v.t = "str" /\ FloatLiteral(v.s) >= 0)

\* C20: the Etsy importer's total_price is the payload's grandtotal
\* whenever the payload has one, a number or the text of a number of any
\* value, and the sum of price x quantity over the parsed transactions
\* only when grandtotal is absent; the Shopify importer does the same
\* with total_price and its line items.
C20_TotalFromPayload ==
    /\ (ParsedBy("EtsyOrderImporter") /\ result.exc = "none") =>
          LET o == result.value[1]
          IN  /\ IsNumber(call.raw.grandtotal) => o.total_price = FloatVal(call.raw.grandtotal)
              /\ IsAbsent(call.raw.grandtotal) => o.total_price = SumSubtotals(o.items)
    /\ (ParsedBy("ShopifyOrderImporter") /\ result.exc = "none") =>
          LET o == result.value[1]
          IN  /\ IsNumber(call.raw.total_price) => o.total_price = FloatVal(call.raw.total_price)
              /\ IsAbsent(call.raw.total_price) => o.total_price = SumSubtotals(o.items)

\* C21: the Etsy importer resolves fulfillment_status as the text of the
\* payload's fulfillment_status, else of its was_paid, else "pending", and
\* stores None when that text is empty; a payload with was_paid, true or
\* false, and no fulfillment_status gets the text of was_paid ("True",
\* "False") as its fulfillment_status.
C21_EtsyFulfillment ==
    (ParsedBy("EtsyOrderImporter") /\ result.exc = "none") =>
        LET fulfillment == call.raw.fulfillment_status
            was_paid == call.raw.was_paid
            resolved == IF Truthy(fulfillment) THEN PyStr(fulfillment)
                        ELSE IF Truthy(was_paid) \/ was_paid.t = "bool" THEN PyStr(was_paid)
                        ELSE "pending"
        IN  /\ result.value[1].fulfillment_status =
                  IF resolved = "" THEN VNone ELSE VStr(resolved)
            /\ (IsAbsent(fulfillment) /\ was_paid.t = "bool") =>
                  result.value[1].fulfillment_status = VStr(PyStr(was_paid))

\* C11: importing is idempotent: the same payload parsed twice by the
\* same importer gives two Orders with the same field values and the same
\* as_dict(), also when the timestamp is absent or cannot be parsed.
C11_ImportIdempotent ==
    (Returned("parse_twice") /\ result.exc = "none") =>
        /\ result.value[1] = result.value[2]
        /\ AsDict(result.value[1]) = AsDict(result.value[2])

\* the items of the order o are the parsed transactions (Etsy) or line
\* items (Shopify) of the payload raw, one for one and in their order
ItemsInSourceOrder(importer, raw, o) ==
    /\ importer.cls = "EtsyOrderImporter" =>
          /\ Len(o.items) = Len(EtsyTransactions(raw))
          /\ \A j \in 1..Len(o.items) :
                o.items[j] = EtsyParseTransaction(EtsyTransactions(raw)[j], o.currency)
    /\ importer.cls = "ShopifyOrderImporter" =>
          /\ Len(o.items) = Len(ShopifyLineItems(raw))
          /\ \A j \in 1..Len(o.items) :
                o.items[j] = ShopifyParseLineItem(ShopifyLineItems(raw)[j], o.currency)

\* C17: the list an importer's import_orders(payloads) returns has the
\* length of payloads, its i-th element is parse_order of the i-th
\* payload, and the items of each Order are in the order of the
\* transactions or line items of its payload.
C17_ImportOrdersInOrder ==
    (Returned("import_orders") /\ result.exc = "none") =>
        LET importer == call.importers[KeyOf(call.platform)]
            raw == RawSeq(call.raw_orders)
        IN  /\ Len(result.value) = Len(raw)
            /\ \A i \in 1..Len(raw) :
                  /\ result.value[i] = ParseOrder(importer, raw[i], clock)
                  /\ ItemsInSourceOrder(importer, raw[i], result.value[i])

\* two payloads parsed to two different orders, the second with two
\* items in the order of its two transactions
C17_Witness ==
    /\ Returned("import_orders")
    /\ call.raw_orders = <<"EtsyA", "Undated">>
    /\ call.importers[KeyOf(call.platform)].cls = "EtsyOrderImporter"
    /\ Len(result.value) = 2
    /\ result.value[1].id = "1"
    /\ result.value[2].id = "4"
    /\ result.value[2].items[1].sku = "X"
    /\ result.value[2].items[2].sku = "Y"

\* the registry the service i holds
RegistryOf(ms, ss, i) == ms[ss[i].ref]

\* C18: a service built without a mapping has a registry with exactly the
\* keys "etsy" and "shopify", in a mapping that no service built before
\* it holds; building it changes no other registry, and
\* register_importer on one such service changes the registry, and so
\* the lookups, of no other such service.
C18_Step ==
    /\ (pc = "idle" /\ call'.op = "construct") =>
          LET new == Len(services')
          IN  /\ new = Len(services) + 1
              /\ DOMAIN RegistryOf(mappings', services', new) = {"etsy", "shopify"}
              /\ RegistryOf(mappings', services', new)["etsy"] = EtsyOrderImporter
              /\ RegistryOf(mappings', services', new)["shopify"] = ShopifyOrderImporter
              /\ \A j \in 1..Len(services) :
                    /\ services'[j].ref # services'[new].ref
                    /\ RegistryOf(mappings', services', j) = RegistryOf(mappings, services, j)
    /\ (pc = "idle" /\ call'.op = "register_on") =>
          \A j \in 1..Len(services) :
             (j # call'.service /\ ~services[j].explicit /\ ~services[call'.service].explicit) =>
                RegistryOf(mappings', services', j) = RegistryOf(mappings, services, j)

C18_FreshRegistry == [][C18_Step]_vars

\* a platform registered on one of two services built without a mapping
\* is found by that service and not by the other
C18_Witness ==
    /\ Returned("lookup_on")
    /\ Len(services) >= 2
    /\ ~services[1].explicit
    /\ ~services[2].explicit
    /\ call.service = 2
    /\ call.platform = "woocommerce"
    /\ result.exc = "KeyError"
    /\ "woocommerce" \in DOMAIN RegistryOf(mappings, services, 1)

-----------------------------------------------------------------------------
(* Claims about the organizer.                                             *)

RECURSIVE SumSeq(_)
SumSeq(ns) == IF ns = <<>> THEN 0 ELSE Head(ns) + SumSeq(Tail(ns))

\* C12: summary(orders) has total_orders the number of orders, open_orders
\* the number of orders whose status, whatever its letter case, is "open",
\* "unfulfilled" or "processing", and total_items the sum over the orders
\* of the sum of their item quantities.
C12_SummaryCounts ==
    Returned("summary") =>
        LET summary == result.value[1]
        IN  /\ summary.total_orders = Len(orders)
            /\ summary.open_orders =
                  Cardinality({i \in 1..Len(orders) :
                      Lower(orders[i].status) \in {"open", "unfulfilled", "processing"}})
            /\ summary.total_items =
                  SumSeq([i \in 1..Len(orders) |->
                      SumSeq([j \in 1..Len(orders[i].items) |-> orders[i].items[j].quantity])])

\* three orders, two of them open with the status in capitals, one with
\* two items
C12_Witness ==
    /\ Returned("summary")
    /\ Len(orders) = 3
    /\ result.value[1].open_orders = 2
    /\ \E i \in 1..3 : orders[i].status = "PROCESSING"
    /\ \E i \in 1..3 : orders[i].status = "Open"
    /\ result.value[1].total_items = 5

\* the orders of xs, in their order in xs, whose key is k
WithStatus(xs, k) == SelectSeq(xs, LAMBDA o : Lower(o.status) = k)

\* C13: group_by_status(orders) is a partition of the input: the keys
\* are the lowercased statuses of the orders, each once; the group of a
\* key holds the orders with that lowercased status, all of them, in
\* their input order; no group is empty; the sizes sum to the number of
\* orders.
C13_GroupByStatusPartition ==
    Returned("group_by_status") =>
        LET grouped == result.value
        IN  /\ \A i, j \in 1..Len(grouped) : i # j => grouped[i].key # grouped[j].key
            /\ {grouped[i].key : i \in 1..Len(grouped)} =
                  {Lower(orders[i].status) : i \in 1..Len(orders)}
            /\ \A i \in 1..Len(grouped) :
                  /\ grouped[i].value = WithStatus(orders, grouped[i].key)
                  /\ grouped[i].value # <<>>
            /\ SumSeq([i \in 1..Len(grouped) |-> Len(grouped[i].value)]) = Len(orders)

\* "open" and "Open" share a group, in input order, beside another group
C13_Witness ==
    /\ Returned("group_by_status")
    /\ Len(result.value) = 2
    /\ \E i \in 1..2 :
          /\ result.value[i].key = "open"
          /\ Len(result.value[i].value) = 2
          /\ result.value[i].value[1].status = "Open"
          /\ result.value[i].value[2].status = "open"

\* the fulfillment key of an order: "unfulfilled" for None and for the
\* empty string
Fulfillment(o) ==
    IF o.fulfillment_status \in {VNone, VStr("")} THEN "unfulfilled"
    ELSE Lower(o.fulfillment_status.s)

WithFulfillment(xs, k) == SelectSeq(xs, LAMBDA o : Fulfillment(o) = k)

\* C14: group_by_fulfillment(orders) partitions the input by lowercased
\* fulfillment_status; an order whose fulfillment_status is None or the
\* empty string is under the key "unfulfilled", with the orders whose
\* fulfillment_status is "unfulfilled" in any letter case; each group is
\* in input order.
C14_GroupByFulfillment ==
    Returned("group_by_fulfillment") =>
        LET grouped == result.value
        IN  /\ \A i, j \in 1..Len(grouped) : i # j => grouped[i].key # grouped[j].key
            /\ {grouped[i].key : i \in 1..Len(grouped)} =
                  {Fulfillment(orders[i]) : i \in 1..Len(orders)}
            /\ \A i \in 1..Len(grouped) :
                  grouped[i].value = WithFulfillment(orders, grouped[i].key)

\* None, the empty string and "Unfulfilled" make one group of three
C14_Witness ==
    /\ Returned("group_by_fulfillment")
    /\ Len(result.value) = 1
    /\ result.value[1].key = "unfulfilled"
    /\ {result.value[1].value[i].fulfillment_status : i \in 1..Len(result.value[1].value)} =
          {VNone, VStr(""), VStr("Unfulfilled")}

\* C15: to_report(orders) has summary equal to summary(orders), by_status
\* giving each key of group_by_status(orders) the size of its group and
\* by_fulfillment doing so for group_by_fulfillment(orders); the counts of
\* by_status, and those of by_fulfillment, sum to summary.total_orders;
\* all this also when orders is a one-shot iterable.
C15_ReportCounts ==
    Returned("to_report") =>
        LET report == result.value[1]
        IN  /\ report.summary = Summary(orders)
            /\ report.by_status =
                  [i \in 1..Len(GroupByStatus(orders)) |->
                      [key |-> GroupByStatus(orders)[i].key,
                       count |-> Len(GroupByStatus(orders)[i].value)]]
            /\ report.by_fulfillment =
                  [i \in 1..Len(GroupByFulfillment(orders)) |->
                      [key |-> GroupByFulfillment(orders)[i].key,
                       count |-> Len(GroupByFulfillment(orders)[i].value)]]
            /\ SumSeq([i \in 1..Len(report.by_status) |-> report.by_status[i].count]) =
                  report.summary.total_orders
            /\ SumSeq([i \in 1..Len(report.by_fulfillment) |->
                          report.by_fulfillment[i].count]) = report.summary.total_orders
            /\ report.summary.total_orders = Len(orders)

\* a report of three orders handed over as a one-shot iterable
C15_Witness ==
    /\ Returned("to_report")
    /\ call.oneshot
    /\ Len(orders) = 3
    /\ Len(result.value[1].by_status) = 2
    /\ Len(result.value[1].by_fulfillment) = 3

\* C16: the list sort_orders(orders, reverse) returns is a permutation of
\* its input in non-decreasing order of created_at, non-increasing under
\* reverse=True; in both directions orders with equal created_at keep
\* their input order; the input list is left as it was.
C16_SortOrdersStable ==
    (Returned("sort_orders") /\ result.exc = "none") =>
        LET in == call.orders
            out == result.value
        IN  /\ orders = in
            /\ Len(out) = Len(in)
            /\ \E p \in Permutations(1..Len(in)) :
                  /\ \A i \in 1..Len(out) : out[i] = in[p[i]]
                  /\ \A i, j \in 1..Len(out) :
                        i < j =>
                          /\ IF call.reverse
                             THEN out[i].created_at.t >= out[j].created_at.t
                             ELSE out[i].created_at.t <= out[j].created_at.t
                          /\ out[i].created_at.t = out[j].created_at.t => p[i] < p[j]

\* newest first: the last order of the input moves to the front, the two
\* with equal created_at stay in their input order
C16_Witness ==
    /\ Returned("sort_orders")
    /\ call.reverse
    /\ result.exc = "none"
    /\ Len(orders) = 3
    /\ orders[1].created_at = orders[2].created_at
    /\ orders[1] # orders[2]
    /\ result.value = <<orders[3], orders[1], orders[2]>>

\* C24: the two views of one collection agree: summary(orders).open_orders
\* is the sum of the sizes of the groups of group_by_status(orders) whose
\* key is "open", "unfulfilled" or "processing", and is never greater than
\* summary(orders).total_orders.
C24_OpenOrdersAgree ==
    Returned("summary_and_groups") =>
        LET summary == result.value[1].summary
            grouped == result.value[1].grouped
        IN  /\ summary.open_orders =
                  SumSeq([i \in 1..Len(grouped) |->
                      IF grouped[i].key \in {"open", "unfulfilled", "processing"}
                      THEN Len(grouped[i].value) ELSE 0])
            /\ summary.open_orders <= summary.total_orders

\* open orders in two groups, statuses in mixed letter case, beside an
\* order that is not open
C24_Witness ==
    /\ Returned("summary_and_groups")
    /\ result.value[1].summary.open_orders = 2
    /\ result.value[1].summary.total_orders = 3
    /\ \E i, j \in 1..Len(result.value[1].grouped) :
          /\ result.value[1].grouped[i].key = "processing"
          /\ result.value[1].grouped[i].value[1].status = "PROCESSING"
          /\ result.value[1].grouped[j].key = "open"

-----------------------------------------------------------------------------
(* Claims about DashboardState.                                            *)

\* a filter is given: it is neither absent nor empty
Given(v) == v \notin {VNone, VStr("")}

\* the orders of xs that pass the filters, in their order in xs
Matching(xs, status, platform) ==
    SelectSeq(xs, LAMBDA o :
        /\ Given(status) => Lower(o.status) = Lower(status.s)
        /\ Given(platform) => Lower(o.platform) = Lower(platform.s))

\* C22: filter_orders(status, platform) returns exactly the orders of
\* state.orders whose lowercased status is the lowercased status filter,
\* when one is given, and whose lowercased platform is the lowercased
\* platform filter, when one is given, newest first; a filter that is
\* absent or empty excludes nothing; state.orders is left as it was.
C22_FilterOrders ==
    Returned("filter_orders") =>
        LET match == Matching(call.orders, call.status_filter, call.platform_filter)
            out == result.value
        IN  /\ result.exc = "none"
            /\ orders = call.orders
            /\ Len(out) = Len(match)
            /\ \E p \in Permutations(1..Len(match)) :
                  \A i \in 1..Len(out) : out[i] = match[p[i]]
            /\ \A i, j \in 1..Len(out) :
                  i < j => out[i].created_at.t >= out[j].created_at.t
            /\ (~Given(call.status_filter) /\ ~Given(call.platform_filter)) =>
                  Len(out) = Len(call.orders)

\* a status filter in capitals picks some orders of the state, not all,
\* and the sort puts a newer one first
C22_Witness ==
    /\ Returned("filter_orders")
    /\ call.status_filter = VStr("Closed")
    /\ call.platform_filter = VStr("Etsy")
    /\ Len(result.value) >= 1
    /\ Len(result.value) < Len(orders)
    /\ \A i \in 1..Len(result.value) : result.value[i].status = "Closed"

\* C23: when two import requests are handled together on the one
\* DashboardState, then once both are done state.orders holds the orders
\* of both batches: for each order of a batch, an order of one of the
\* batches with its key; no interleaving loses a request's orders.
C23_NoLostUpdate ==
    (\A t \in Threads : handlers[t].at = "done" /\ handlers[t].exc = "none") =>
        \A t \in Threads :
           \A i \in 1..Len(handlers[t].new_orders) :
              \E j \in 1..Len(orders) :
                 /\ OrderKey(orders[j]) = OrderKey(handlers[t].new_orders[i])
                 /\ \E u \in Threads :
                       \E k \in 1..Len(handlers[u].new_orders) :
                          orders[j] = handlers[u].new_orders[k]

\* the last order of xs with the key k
LastWithKey(xs, k) ==
    xs[CHOOSE i \in 1..Len(xs) :
          OrderKey(xs[i]) = k /\ \A j \in 1..Len(xs) : OrderKey(xs[j]) = k => j <= i]

\* C7: after any call of upsert_orders, state.orders holds at most one
\* order per (lowercased platform, id); for every key of the batch it
\* holds the batch's last order with that key; and every earlier order
\* whose key is not in the batch is still there.
C7_UpsertReplaces ==
    Returned("upsert_orders") =>
        LET batchKeys == {OrderKey(call.new_orders[i]) : i \in 1..Len(call.new_orders)}
            held == {orders[i] : i \in 1..Len(orders)}
        IN  /\ \A i, j \in 1..Len(orders) : i < j => OrderKey(orders[i]) # OrderKey(orders[j])
            /\ \A k \in batchKeys : LastWithKey(call.new_orders, k) \in held
            /\ \A i \in 1..Len(call.orders) :
                  OrderKey(call.orders[i]) \notin batchKeys => call.orders[i] \in held

====
